---- MODULE Spec2Model ----
(***************************************************************************)
(* Model of service/uci/jni/src/helper.rs: the three helpers that turn a   *)
(* uwb_core Result<T> into a JNI primitive (jboolean, jbyte, Option<T>)    *)
(* and write one error!() line to the log when the result is an Err.       *)
(*                                                                         *)
(* A call is modelled in the steps the code takes: it is invoked with a    *)
(* result and an error_msg, an Err result is logged, and the call returns. *)
(* Up to NumCalls calls run concurrently; the log is the only variable     *)
(* they share.  Calls are numbered in the order in which they are invoked. *)
(***************************************************************************)
EXTENDS Integers, Sequences, FiniteSets, TLC

\* ---------------------------------------------------------------- bounds
\* Number of calls made in one behaviour (they may overlap in time).
NumCalls == 2
\* Success payloads are the integers 1..MaxPayload (T = i32 in the tests).
MaxPayload == 2

Calls == 1..NumCalls
Payloads == 1..MaxPayload

\* ------------------------------------------------------------------ state
VARIABLES
    pc,         \* pc[c]: "idle", "logged" (Err line written) or "done"
    op,         \* op[c]: the helper call c invokes
    call_result,     \* call_result[c]: the result passed to call c
    call_error_msg,  \* call_error_msg[c]: the error_msg passed to call c
    ret,        \* ret[c]: the value call c returned
    log         \* the log sink: the lines written so far, oldest first

vars == <<pc, op, call_result, call_error_msg, ret, log>>

\* ------------------------------------------------------------ data model
\* uwb_core::error::Error: the variants the source names. DuplicatedSessionId
\* stands for the variants that have no arm of their own.
ErrorKinds ==
    {"BadParameters", "MaxSessionsExceeded", "CommandRetry",
     "RegulationUwbOff", "DuplicatedSessionId"}

\* error_msg: the labels the tests pass.
Labels == {"Test", "Operation"}

\* Result<T>
Ok(v) == [tag |-> "Ok", val |-> v]
Err(e) == [tag |-> "Err", err |-> e]
Results == {Ok(v) : v \in Payloads} \cup {Err(e) : e \in ErrorKinds}
is_ok(result) == result.tag = "Ok"
is_err(result) == result.tag = "Err"

\* Option<T>
Some(v) == [tag |-> "Some", val |-> v]
None == [tag |-> "None"]

\* uwb_uci_packets::StatusCode: the discriminants of the codes the helper
\* can produce, as the UCI packet definition assigns them.
StatusCodeU8 ==
    [UciStatusOk |-> 0,
     UciStatusFailed |-> 2,
     UciStatusInvalidParam |-> 4,
     UciStatusCommandRetry |-> 10,
     UciStatusMaxSessionsExceeded |-> 20,
     UciStatusRegulationUwbOff |-> 83]
StatusCodes == DOMAIN StatusCodeU8

\* u8::from(StatusCode)
u8_from(status) == StatusCodeU8[status] % 256

\* (variant: offset binary instead of two's complement)
as_i8_offset(u) == u - 128

\* `as i8` on a u8: the same eight bits read as two's complement.
as_i8(u) == IF u >= 128 THEN u - 256 ELSE u

\* bool -> jboolean (.into()): JNI_TRUE is 1 and JNI_FALSE is 0.
bool_into_jboolean(b) == IF b THEN 1 ELSE 0

\* error!("{} failed with {:?}", error_msg, &e): one line at error level,
\* appended to the log sink. {:?} of a unit variant prints its name.
error_line(error_msg, e) ==
    [level |-> "error", text |-> <<error_msg, " failed with ", e>>]

\* (variant: the write replaces the sink's content instead of extending it)
log_error_overwrite(lg, error_msg, e) == <<error_line(error_msg, e)>>

\* (variant: only the error kinds with an arm of their own are logged)
log_error_named_only(lg, error_msg, e) ==
    IF e = "DuplicatedSessionId" THEN lg ELSE Append(lg, error_line(error_msg, e))

log_error(lg, error_msg, e) == Append(lg, error_line(error_msg, e))

\* ---------------------------------------------------------- the helpers
\* The value each helper returns; the log line of an Err is written by the
\* *_log steps below before the value is returned.

\* (variant: the arms are swapped)
boolean_result_helper_inverted(result, error_msg) ==
    bool_into_jboolean(is_err(result))

\* (variant: an Err counts as a failure only the first time it is logged)
boolean_result_helper_once(result, error_msg) ==
    bool_into_jboolean(is_ok(result) \/ Len(log) > 1)

\* (variant: the value depends on the label)
boolean_result_helper_by_label(result, error_msg) ==
    bool_into_jboolean(is_ok(result) \/ error_msg = "Test")

boolean_result_helper(result, error_msg) ==
    bool_into_jboolean(
        CASE is_ok(result) -> TRUE
          [] is_err(result) -> FALSE)

\* (variant: the catch-all arm gives the default status, Ok)
result_to_status_code_default_ok(result, error_msg) ==
    CASE is_ok(result) -> "UciStatusOk"
      [] is_err(result) /\ result.err = "BadParameters" -> "UciStatusInvalidParam"
      [] is_err(result) /\ result.err = "MaxSessionsExceeded" ->
            "UciStatusMaxSessionsExceeded"
      [] is_err(result) /\ result.err = "CommandRetry" -> "UciStatusCommandRetry"
      [] is_err(result) /\ result.err = "RegulationUwbOff" ->
            "UciStatusRegulationUwbOff"
      [] OTHER -> "UciStatusOk"

\* (variant: the CommandRetry arm is missing)
result_to_status_code_no_retry(result, error_msg) ==
    CASE is_ok(result) -> "UciStatusOk"
      [] is_err(result) /\ result.err = "BadParameters" -> "UciStatusInvalidParam"
      [] is_err(result) /\ result.err = "MaxSessionsExceeded" ->
            "UciStatusMaxSessionsExceeded"
      [] is_err(result) /\ result.err = "RegulationUwbOff" ->
            "UciStatusRegulationUwbOff"
      [] OTHER -> "UciStatusFailed"

result_to_status_code(result, error_msg) ==
    CASE is_ok(result) -> "UciStatusOk"
      [] is_err(result) /\ result.err = "BadParameters" -> "UciStatusInvalidParam"
      [] is_err(result) /\ result.err = "MaxSessionsExceeded" ->
            "UciStatusMaxSessionsExceeded"
      [] is_err(result) /\ result.err = "CommandRetry" -> "UciStatusCommandRetry"
      [] is_err(result) /\ result.err = "RegulationUwbOff" ->
            "UciStatusRegulationUwbOff"
      [] OTHER -> "UciStatusFailed"

byte_result_helper(result, error_msg) ==
    as_i8(u8_from(result_to_status_code(result, error_msg)))

\* (variant: unwrap_or_default instead of ok)
option_result_helper_default(result, error_msg) ==
    IF is_ok(result) THEN Some(result.val) ELSE Some(0)

\* (variant: unwrap, which panics on an Err)
option_result_helper_unwrap(result, error_msg) ==
    IF is_ok(result) THEN Some(result.val) ELSE [tag |-> "Panic"]

option_result_helper(result, error_msg) ==
    IF is_ok(result) THEN Some(result.val) ELSE None

Ops == {"boolean_result_helper", "byte_result_helper", "option_result_helper"}

NoCall == [tag |-> "NoCall"]
NoReturn == [tag |-> "NoReturn"]

Init ==
    /\ pc = [c \in Calls |-> "idle"]
    /\ op = [c \in Calls |-> "none"]
    /\ call_result = [c \in Calls |-> NoCall]
    /\ call_error_msg = [c \in Calls |-> ""]
    /\ ret = [c \in Calls |-> NoReturn]
    /\ log = <<>>

\* A caller passes result r and label m to helper o; the call takes the next
\* free call number. Entering a helper touches nothing another call can see,
\* so the invocation is one step with the first thing the helper does.
CanInvoke(c) ==
    /\ pc[c] = "idle"
    /\ IF c = 1 THEN TRUE ELSE pc[c - 1] # "idle"

Invoke(c, o, r, m) ==
    /\ op' = [op EXCEPT ![c] = o]
    /\ call_result' = [call_result EXCEPT ![c] = r]
    /\ call_error_msg' = [call_error_msg EXCEPT ![c] = m]

\* Ok arm: the helper returns value v and writes nothing.
OkArm(c, o, r, m, v) ==
    /\ is_ok(r)
    /\ Invoke(c, o, r, m)
    /\ ret' = [ret EXCEPT ![c] = v]
    /\ pc' = [pc EXCEPT ![c] = "done"]
    /\ UNCHANGED log

\* Err arm, first half: error!("{} failed with {:?}", error_msg, &e).
ErrLog(c, o, r, m) ==
    /\ is_err(r)
    /\ Invoke(c, o, r, m)
    /\ log' = log_error(log, m, r.err)
    /\ pc' = [pc EXCEPT ![c] = "logged"]
    /\ UNCHANGED ret

\* Err arm, second half: the helper returns value v.
ErrReturn(c, o, v) ==
    /\ pc[c] = "logged"
    /\ op[c] = o
    /\ ret' = [ret EXCEPT ![c] = v]
    /\ pc' = [pc EXCEPT ![c] = "done"]
    /\ UNCHANGED <<op, call_result, call_error_msg, log>>

boolean_ok(c) ==
    /\ CanInvoke(c)
    /\ \E r \in Results, m \in Labels :
        OkArm(c, "boolean_result_helper", r, m, boolean_result_helper(r, m))

boolean_err_log(c) ==
    /\ CanInvoke(c)
    /\ \E r \in Results, m \in Labels : ErrLog(c, "boolean_result_helper", r, m)

boolean_err_return(c) ==
    ErrReturn(c, "boolean_result_helper",
              boolean_result_helper(call_result[c], call_error_msg[c]))

byte_ok(c) ==
    /\ CanInvoke(c)
    /\ \E r \in Results, m \in Labels :
        OkArm(c, "byte_result_helper", r, m, byte_result_helper(r, m))

byte_err_log(c) ==
    /\ CanInvoke(c)
    /\ \E r \in Results, m \in Labels : ErrLog(c, "byte_result_helper", r, m)

byte_err_return(c) ==
    ErrReturn(c, "byte_result_helper",
              byte_result_helper(call_result[c], call_error_msg[c]))

option_ok(c) ==
    /\ CanInvoke(c)
    /\ \E r \in Results, m \in Labels :
        OkArm(c, "option_result_helper", r, m, option_result_helper(r, m))

option_err_log(c) ==
    /\ CanInvoke(c)
    /\ \E r \in Results, m \in Labels : ErrLog(c, "option_result_helper", r, m)

option_err_return(c) ==
    ErrReturn(c, "option_result_helper",
              option_result_helper(call_result[c], call_error_msg[c]))

Next ==
    \E c \in Calls :
        \/ boolean_ok(c)
        \/ boolean_err_log(c)
        \/ boolean_err_return(c)
        \/ byte_ok(c)
        \/ byte_err_log(c)
        \/ byte_err_return(c)
        \/ option_ok(c)
        \/ option_err_log(c)
        \/ option_err_return(c)

Spec == Init /\ [][Next]_vars

TypeOK ==
    /\ pc \in [Calls -> {"idle", "logged", "done"}]
    /\ \A c \in Calls : pc[c] # "idle" =>
           /\ op[c] \in Ops
           /\ call_result[c] \in Results
           /\ call_error_msg[c] \in Labels
    /\ Len(log) <= NumCalls

\* ----------------------------------------------------------- properties
Done(c) == pc[c] = "done"
Failing(c) == pc[c] # "idle" /\ is_err(call_result[c])
DoneOf(c, o) == Done(c) /\ op[c] = o

\* C1: a returned byte_result_helper value is the numeric value of the status
\* code the mapping table gives for the outcome: Ok for a success, InvalidParam
\* for BadParameters, MaxSessionsExceeded, CommandRetry and RegulationUwbOff
\* for the errors of the same name, Failed for every other error kind.
C1_StatusByteMapping ==
    \A c \in Calls : DoneOf(c, "byte_result_helper") =>
        LET r == call_result[c] IN
        /\ is_ok(r) => ret[c] = StatusCodeU8.UciStatusOk
        /\ r = Err("BadParameters") => ret[c] = StatusCodeU8.UciStatusInvalidParam
        /\ r = Err("MaxSessionsExceeded") =>
               ret[c] = StatusCodeU8.UciStatusMaxSessionsExceeded
        /\ r = Err("CommandRetry") => ret[c] = StatusCodeU8.UciStatusCommandRetry
        /\ r = Err("RegulationUwbOff") =>
               ret[c] = StatusCodeU8.UciStatusRegulationUwbOff
        /\ (is_err(r) /\ r.err \notin {"BadParameters", "MaxSessionsExceeded",
                                       "CommandRetry", "RegulationUwbOff"}) =>
               ret[c] = StatusCodeU8.UciStatusFailed

\* Two byte calls have returned: one for CommandRetry, one for an error kind
\* without an arm of its own.
C1_Witness ==
    \E c, d \in Calls :
        /\ DoneOf(c, "byte_result_helper") /\ call_result[c] = Err("CommandRetry")
        /\ DoneOf(d, "byte_result_helper")
        /\ call_result[d] = Err("DuplicatedSessionId")
        /\ ret[d] = StatusCodeU8.UciStatusFailed

\* C2: a returned boolean_result_helper value is JNI true (1) if and only if
\* the outcome is a success, and JNI false (0) for every error kind.
C2_BooleanIffSuccess ==
    \A c \in Calls : DoneOf(c, "boolean_result_helper") =>
        /\ ret[c] \in {0, 1}
        /\ ret[c] = 1 <=> is_ok(call_result[c])

\* A boolean call with a success and one with an error have both returned.
C2_Witness ==
    \E c, d \in Calls :
        /\ DoneOf(c, "boolean_result_helper") /\ is_ok(call_result[c])
        /\ DoneOf(d, "boolean_result_helper") /\ is_err(call_result[d])

\* C3: a returned option_result_helper value is Some(v) with v the payload of
\* the outcome if the outcome is a success, and None for every error kind.
C3_OptionKeepsPayload ==
    \A c \in Calls : DoneOf(c, "option_result_helper") =>
        /\ is_ok(call_result[c]) => ret[c] = Some(call_result[c].val)
        /\ is_err(call_result[c]) => ret[c] = None
        /\ ret[c].tag = "Some" <=> is_ok(call_result[c])

\* An option call with the largest payload and one with an error have returned.
C3_Witness ==
    \E c, d \in Calls :
        /\ DoneOf(c, "option_result_helper") /\ call_result[c] = Ok(MaxPayload)
        /\ ret[c] = Some(MaxPayload)
        /\ DoneOf(d, "option_result_helper") /\ is_err(call_result[d])
        /\ ret[d] = None

\* The number of times line l occurs in the log.
Occurrences(l) == Cardinality({i \in 1..Len(log) : log[i] = l})

\* The line a failing call writes.
LineOf(c) == error_line(call_error_msg[c], call_result[c].err)

AllLines == {error_line(m, e) : m \in Labels, e \in ErrorKinds}

\* C4: in every state the log holds, for each line, as many copies as there
\* are calls with an error outcome carrying that label and error kind: a call
\* that has returned with an error has written exactly one error-level line
\* with its label and error before returning, and a call with a success has
\* written none.
C4_OneLinePerFailingCall ==
    /\ \A i \in 1..Len(log) : log[i].level = "error"
    /\ \A l \in AllLines :
           Occurrences(l) = Cardinality({c \in Calls : Failing(c) /\ LineOf(c) = l})
    /\ Len(log) = Cardinality({c \in Calls : Failing(c)})

\* A call with a catch-all error kind has returned, its line is the log's only
\* line, and a call with a success has returned too.
C4_Witness ==
    \E c, d \in Calls :
        /\ Done(c) /\ call_result[c] = Err("DuplicatedSessionId")
        /\ Done(d) /\ is_ok(call_result[d])
        /\ log = <<LineOf(c)>>

\* C5: a returned byte_result_helper value lies in 0..127 and is the u8 value
\* of the status code the outcome is classified as: the cast to i8 does not
\* wrap.
C5_StatusByteInRange ==
    \A c \in Calls : DoneOf(c, "byte_result_helper") =>
        /\ ret[c] \in 0..127
        /\ ret[c] = u8_from(result_to_status_code(call_result[c], call_error_msg[c]))

\* A byte call has returned the largest code the mapping produces.
C5_Witness ==
    \E c \in Calls :
        /\ DoneOf(c, "byte_result_helper")
        /\ call_result[c] = Err("RegulationUwbOff")
        /\ \A s \in StatusCodes : ret[c] >= StatusCodeU8[s]

\* The values a helper can hand back to the JNI caller for a failure.
FailureValues(o) ==
    CASE o = "boolean_result_helper" -> {0}
      [] o = "byte_result_helper" -> (-128..127) \ {StatusCodeU8.UciStatusOk}
      [] o = "option_result_helper" -> {None}

\* The values a helper can hand back for a success.
SuccessValues(o) ==
    CASE o = "boolean_result_helper" -> {1}
      [] o = "byte_result_helper" -> {StatusCodeU8.UciStatusOk}
      [] o = "option_result_helper" -> {Some(v) : v \in Payloads}

\* C6: every helper accepts every outcome and label, a call that has logged
\* its error can always return, and what a call returns is a normal value of
\* its return type (false, a failure status byte or None for an error): the
\* error is never passed on to the caller.
C6_TotalAndAbsorbing ==
    /\ \A c \in Calls : CanInvoke(c) =>
           \A o \in Ops, r \in Results, m \in Labels :
               IF is_ok(r)
               THEN ENABLED OkArm(c, o, r, m, NoReturn)
               ELSE ENABLED ErrLog(c, o, r, m)
    /\ \A c \in Calls : pc[c] = "logged" =>
           ENABLED (boolean_err_return(c) \/ byte_err_return(c) \/ option_err_return(c))
    /\ \A c \in Calls : Done(c) =>
           IF is_err(call_result[c])
           THEN ret[c] \in FailureValues(op[c])
           ELSE ret[c] \in SuccessValues(op[c])

\* Calls of two different helpers have returned from an error.
C6_Witness ==
    \E c, d \in Calls :
        /\ DoneOf(c, "option_result_helper") /\ is_err(call_result[c])
        /\ DoneOf(d, "byte_result_helper") /\ is_err(call_result[d])

SameCall(c, d) ==
    /\ op[c] = op[d]
    /\ call_result[c] = call_result[d]
    /\ call_error_msg[c] = call_error_msg[d]

C8_LabelIrrelevant ==
    /\ \A c, d \in Calls :
           (Done(c) /\ Done(d) /\ op[c] = op[d] /\ call_result[c] = call_result[d])
               => ret[c] = ret[d]
    /\ \A c \in Calls : (Done(c) /\ Failing(c)) =>
           \E i \in 1..Len(log) : log[i].text[1] = call_error_msg[c]

\* The same helper was called with the same error under two labels.
C8_Witness ==
    \E c, d \in Calls :
        /\ Done(c) /\ Done(d) /\ op[c] = op[d]
        /\ call_result[c] = call_result[d] /\ is_err(call_result[c])
        /\ call_error_msg[c] # call_error_msg[d]

\* What a call of helper o with outcome r returns when no other call runs.
Alone(o, r) ==
    CASE o = "boolean_result_helper" -> IF is_ok(r) THEN 1 ELSE 0
      [] o = "byte_result_helper" ->
            IF is_ok(r) THEN StatusCodeU8.UciStatusOk
            ELSE IF r.err = "BadParameters" THEN StatusCodeU8.UciStatusInvalidParam
            ELSE IF r.err = "MaxSessionsExceeded"
                 THEN StatusCodeU8.UciStatusMaxSessionsExceeded
            ELSE IF r.err = "CommandRetry" THEN StatusCodeU8.UciStatusCommandRetry
            ELSE IF r.err = "RegulationUwbOff"
                 THEN StatusCodeU8.UciStatusRegulationUwbOff
            ELSE StatusCodeU8.UciStatusFailed
      [] o = "option_result_helper" -> IF is_ok(r) THEN Some(r.val) ELSE None

\* The calls that have written their line.
Writers == {c \in Calls : Failing(c)}

\* C9: however the calls interleave, a call returns what it would return
\* alone, and the log is the lines of the failing calls in some order, one per
\* call, none lost and none written twice.
C9_IndependentCalls ==
    /\ \A c \in Calls : Done(c) => ret[c] = Alone(op[c], call_result[c])
    /\ \E f \in [Writers -> 1..Len(log)] :
           /\ \A c, d \in Writers : c # d => f[c] # f[d]
           /\ \A i \in 1..Len(log) : \E c \in Writers : f[c] = i
           /\ \A c \in Writers : log[f[c]] = LineOf(c)

\* Two failing calls overlapped: the second one started and returned while the
\* first one had written its line and not yet returned.
C9_Witness ==
    /\ NumCalls >= 2
    /\ pc[1] = "logged" /\ pc[2] = "done"
    /\ is_err(call_result[2]) /\ LineOf(1) # LineOf(2)
    /\ Len(log) = 2

\* Whether the value a call returned tells its caller of a success.
ReportsSuccess(c) ==
    CASE op[c] = "boolean_result_helper" -> ret[c] = 1
      [] op[c] = "byte_result_helper" -> ret[c] = StatusCodeU8.UciStatusOk
      [] op[c] = "option_result_helper" -> ret[c].tag = "Some"

\* C10: the helpers agree on success: calls with the same outcome all report
\* a success or all report a failure, and no call with an error reports a
\* success.
C10_HelpersAgree ==
    /\ \A c, d \in Calls :
           (Done(c) /\ Done(d) /\ call_result[c] = call_result[d])
               => (ReportsSuccess(c) <=> ReportsSuccess(d))
    /\ \A c \in Calls : Done(c) => (ReportsSuccess(c) <=> is_ok(call_result[c]))

\* The boolean and the byte helper have returned for the same catch-all error.
C10_Witness ==
    \E c, d \in Calls :
        /\ DoneOf(c, "boolean_result_helper") /\ DoneOf(d, "byte_result_helper")
        /\ call_result[c] = Err("DuplicatedSessionId")
        /\ call_result[d] = call_result[c]

====
